---- MODULE Spec2Model ----
(***************************************************************************)
(* Model of the question-generation pipeline of Questify:                  *)
(*   - the POST /api/generate handler, sanitizeModel, buildPrompt and      *)
(*     callGemini of the server (src/unnamed/part_000), and                *)
(*   - extractTextFromFile (src/client/src/App.jsx, lines 246-278).        *)
(* One request is followed from its arrival to its HTTP response.  The     *)
(* handler is an async function: it is cut into steps at its awaits (one   *)
(* per extracted file, one for the outbound fetch).                        *)
(* JavaScript strings are TLA+ strings; TLC evaluates Len, \o, SubSeq on   *)
(* them, so prefixes, slices, joins and trims are computed, not assumed.   *)
(***************************************************************************)
EXTENDS Integers, Sequences, FiniteSets, TLC

VARIABLES
    apiKey,          \* GEMINI_API_KEY is configured (process-wide, read-only)
    req,             \* req.body and req.files of the request
    pc,              \* position of the handler: "start", "extract", "fetch", "done"
    questionCount,   \* Number(rawQuestionCount), 0 standing for undefined
    selectedModel,   \* result of sanitizeModel
    collectedTexts,  \* the handler's collectedTexts array
    idx,             \* index of the file whose extraction is awaited
    routes,          \* branch extractTextFromFile took for each file so far
    extracted,       \* text extractTextFromFile returned for each file so far
    aggregated,      \* the handler got past the join of collectedTexts
    combined,        \* collectedTexts.join('\n\n')
    material,        \* combined after the truncation step
    geminiCalls,     \* number of invocations of callGemini
    outbound,        \* the outbound fetch calls made, in order
    response,        \* what the awaited fetch settled with
    llmResponse,     \* value callGemini returned
    upstream,        \* how the endpoint will answer this request's fetch
    res              \* the HTTP response sent (status 0: none yet)

vars == <<apiKey, req, pc, questionCount, selectedModel, collectedTexts, idx,
          routes, extracted, aggregated, combined, material, geminiCalls,
          outbound, response, llmResponse, upstream, res>>

-----------------------------------------------------------------------------
(* Bounds of the model *)

MaxFiles == 2

-----------------------------------------------------------------------------
(* String helpers: String.prototype methods and Array.prototype.join *)

Min(a, b) == IF a < b THEN a ELSE b

CharAt(s, i) == SubSeq(s, i, i)

StartsWith(s, p) == Len(s) >= Len(p) /\ SubSeq(s, 1, Len(p)) = p

EndsWith(s, p) == Len(s) >= Len(p) /\ SubSeq(s, Len(s) - Len(p) + 1, Len(s)) = p

\* s.slice(0, n) for n >= 0
Slice0(s, n) == SubSeq(s, 1, Min(n, Len(s)))

WhiteSpace == {" ", "\t", "\n", "\r", "\f"}

RECURSIVE TrimStart(_)
TrimStart(s) ==
    IF s # "" /\ CharAt(s, 1) \in WhiteSpace THEN TrimStart(Tail(s)) ELSE s

RECURSIVE TrimEnd(_)
TrimEnd(s) ==
    IF s # "" /\ CharAt(s, Len(s)) \in WhiteSpace
    THEN TrimEnd(SubSeq(s, 1, Len(s) - 1))
    ELSE s

Trim(s) == TrimEnd(TrimStart(s))

RECURSIVE Join(_, _)
Join(seq, sep) ==
    IF seq = <<>> THEN ""
    ELSE IF Len(seq) = 1 THEN seq[1]
    ELSE seq[1] \o sep \o Join(Tail(seq), sep)

RECURSIVE Rep(_, _)
Rep(s, n) ==
    IF n = 0 THEN ""
    ELSE IF n % 2 = 1 THEN s \o Rep(s, n - 1)
    ELSE LET h == Rep(s, n \div 2) IN h \o h

UpperChars == "ABCDEFGHIJKLMNOPQRSTUVWXYZ"
LowerChars == "abcdefghijklmnopqrstuvwxyz"

LowerChar(c) ==
    IF \E i \in 1..26 : CharAt(UpperChars, i) = c
    THEN CharAt(LowerChars, CHOOSE i \in 1..26 : CharAt(UpperChars, i) = c)
    ELSE c

RECURSIVE ToLowerCase(_)
ToLowerCase(s) ==
    IF s = "" THEN "" ELSE LowerChar(CharAt(s, 1)) \o ToLowerCase(Tail(s))

\* s.lastIndexOf(c), 1-based, 0 when absent
LastIndexOf(s, c) ==
    LET hits == {i \in 1..Len(s) : CharAt(s, i) = c}
    IN IF hits = {} THEN 0 ELSE CHOOSE i \in hits : \A j \in hits : j <= i

\* path.extname: from the last '.' of the last path segment to the end;
\* '' when there is no '.', or when the only '.' starts the segment
extname(p) ==
    LET slash == LastIndexOf(p, "/")
        base  == SubSeq(p, slash + 1, Len(p))
        dot   == LastIndexOf(base, ".")
    IN IF dot <= 1 \/ base = ".." THEN "" ELSE SubSeq(base, dot, Len(base))

Digits == "0123456789"

IsDigit(c) == \E i \in 1..10 : CharAt(Digits, i) = c

DigitVal(c) == (CHOOSE i \in 1..10 : CharAt(Digits, i) = c) - 1

RECURSIVE DecimalValue(_, _)
DecimalValue(s, acc) ==
    IF s = "" THEN acc ELSE DecimalValue(Tail(s), 10 * acc + DigitVal(CharAt(s, 1)))

NaN == -1

\* Number(s) on a decimal digit string; any other non-blank string is NaN
ToNumber(s) ==
    LET t == Trim(s)
    IN IF t = "" THEN 0
       ELSE IF \A i \in 1..Len(t) : IsDigit(CharAt(t, i)) THEN DecimalValue(t, 0)
       ELSE NaN

-----------------------------------------------------------------------------
(* Program constants *)

ALLOWED_MODELS ==
    << "models/gemini-2.5-pro",
       "models/gemini-2.5-pro-preview-06-05",
       "models/gemini-2.5-pro-preview-05-06",
       "models/gemini-2.5-pro-preview-03-25",
       "models/gemini-2.5-flash",
       "models/gemini-2.5-flash-preview-09-2025",
       "models/gemini-2.5-flash-lite",
       "models/gemini-2.5-flash-lite-preview-09-2025",
       "models/gemini-flash-latest",
       "models/gemini-flash-lite-latest",
       "models/gemini-pro-latest",
       "models/gemini-2.0-flash",
       "models/gemini-2.0-flash-001",
       "models/gemini-2.0-flash-exp",
       "models/gemini-2.0-flash-lite",
       "models/gemini-2.0-flash-lite-001",
       "models/gemini-2.0-flash-lite-preview-02-05",
       "models/gemini-2.0-flash-thinking-exp",
       "models/gemini-2.0-flash-thinking-exp-01-21",
       "models/gemini-2.0-flash-thinking-exp-1219",
       "models/gemini-2.0-pro-exp",
       "models/gemini-2.0-pro-exp-02-05",
       "models/gemini-3-pro-preview" >>

\* Array.prototype.includes
Includes(arr, x) == \E i \in 1..Len(arr) : arr[i] = x

TRUNCATE_LIMIT == 16000

TruncationMarker == "\n...[truncated for token limit]"

SUPPORTED_TEXT_EXTENSIONS == {".txt", ".md", ".csv", ".json"}

\* ("A-D" stands for the source's "A", en dash, "D")
formatDescription(format) ==
    CASE format = "mcq" ->
           "Return multiple-choice questions with four options labeled A-D. Provide the correct answer key with explanations."
      [] format = "short" ->
           "Return short-answer questions that can be answered in two to three sentences. Supply concise sample answers."
      [] format = "long" ->
           "Return long-form prompts that require analytical or essay-style responses. Supply structured sample outlines or rubric points."
      [] OTHER -> ""

difficultyDescription(difficulty) ==
    CASE difficulty = "easy" ->
           "Focus on foundational recall and introductory understanding."
      [] difficulty = "medium" ->
           "Balance recall with application and short analysis tasks."
      [] difficulty = "hard" ->
           "Emphasize critical thinking, synthesis, and problem solving at an advanced level."
      [] OTHER -> ""

\* The messages of the failures the handler and its callees raise
MsgQuestionCount == "Question count must be a number."
MsgModelNotAllowed == "Selected model is not in the approved allow list."
MsgNoMaterial == "Please provide either text input or at least one supported file."
MsgNotConfigured == "Gemini API key is not configured on the server."
MsgEmptyResponse == "Gemini API returned an empty response."
MsgMalformed == "The model returned an unexpected format. Please try again or adjust the prompt."
MsgUnexpected == "Unexpected server error."
MsgUnsupportedPrefix == "Unsupported file type: "
MsgGatewayPrefix == "Gemini API error ("
MsgBlockedPrefix == "Gemini blocked the prompt: "
\* message of the TypeError raised by reading a property of null
MsgNullProperty == "Cannot read properties of null (reading 'questions')"

-----------------------------------------------------------------------------
(* Text Extractor: extractTextFromFile *)

\* A file is [buffer, mimetype, originalname]; buffer is a sequence of bytes.
\* pdf is the settlement of pdfParse(buffer): [ok, text, message].

AsciiChar(b) ==
    CASE b = 10 -> "\n"
      [] b = 32 -> " "
      [] b = 66 -> "B"
      [] b = 98 -> "b"
      [] b = 123 -> "{"
      [] b = 125 -> "}"

\* buffer.toString('utf8') on a buffer of the single-byte code points above
RECURSIVE Utf8ToString(_)
Utf8ToString(buffer) ==
    IF buffer = <<>> THEN ""
    ELSE AsciiChar(Head(buffer)) \o Utf8ToString(Tail(buffer))

\* originalname || mimetype
NameOrType(file) ==
    IF file.originalname # "" THEN file.originalname ELSE file.mimetype

\* Faulty variant: the text branch is tested before the PDF branch
extractTextFromFile_TextFirst(file, pdf) ==
    LET ext == ToLowerCase(extname(file.originalname))
    IN IF Len(file.buffer) = 0
       THEN [route |-> "empty", ok |-> TRUE, text |-> "", message |-> ""]
       ELSE IF StartsWith(file.mimetype, "text/") \/ ext \in SUPPORTED_TEXT_EXTENSIONS
       THEN [route |-> "utf8", ok |-> TRUE, text |-> Utf8ToString(file.buffer),
             message |-> ""]
       ELSE IF file.mimetype = "application/pdf" \/ ext = ".pdf"
       THEN [route |-> "pdf", ok |-> pdf.ok, text |-> pdf.text,
             message |-> pdf.message]
       ELSE [route |-> "unsupported", ok |-> FALSE, text |-> "",
             message |-> MsgUnsupportedPrefix \o NameOrType(file)]

extractTextFromFile(file, pdf) ==
    LET ext == ToLowerCase(extname(file.originalname))
    IN IF Len(file.buffer) = 0
       THEN [route |-> "empty", ok |-> TRUE, text |-> "", message |-> ""]
       ELSE IF file.mimetype = "application/pdf" \/ ext = ".pdf"
       THEN [route |-> "pdf", ok |-> pdf.ok, text |-> pdf.text,
             message |-> pdf.message]
       ELSE IF StartsWith(file.mimetype, "text/") \/ ext \in SUPPORTED_TEXT_EXTENSIONS
       THEN [route |-> "utf8", ok |-> TRUE, text |-> Utf8ToString(file.buffer),
             message |-> ""]
       ELSE [route |-> "unsupported", ok |-> FALSE, text |-> "",
             message |-> MsgUnsupportedPrefix \o NameOrType(file)]

-----------------------------------------------------------------------------
(* Prompt Builder and model selection *)

\* `${questionCount} high-quality questions`, or the generic clause when the
\* count is undefined (0 here) or 0
countHint(qc) ==
    IF qc # 0 THEN ToString(qc) \o " high-quality questions"
    ELSE "a clear, well-structured set of high-quality questions"

PromptPreamble(difficulty, format, qc) ==
    LET formatHint == IF formatDescription(format) # ""
                      THEN formatDescription(format) ELSE formatDescription("mcq")
        difficultyHint == IF difficultyDescription(difficulty) # ""
                          THEN difficultyDescription(difficulty)
                          ELSE difficultyDescription("medium")
    IN "You are an expert instructional designer helping teachers craft assessments.\n\n"
       \o difficultyHint \o "\n"
       \o formatHint \o "\n"
       \o "Create " \o countHint(qc) \o " based strictly on the provided course material.\n"
       \o "For each question include:\n"
       \o "- \"prompt\": the question or task.\n"
       \o "- \"type\": one of [\"mcq\", \"short\", \"long\"].\n"
       \o "- \"difficulty\": one of [\"easy\", \"medium\", \"hard\"].\n"
       \o "- \"answer\": the teacher-facing answer key or rubric guidance.\n"
       \o "- \"options\": include only when type is \"mcq\"; provide an array of answer choices.\n\n"
       \o "Respond with valid JSON only, no markdown, using this exact template:\n"
       \o "{\"questions\":[{\"prompt\":\"...\",\"type\":\"...\",\"difficulty\":\"...\",\"answer\":\"...\",\"options\":[\"...\"]}]}.\n"
       \o "The \"options\" array is required only for multiple-choice questions; otherwise set it to an empty array. Do not add any extra fields.\n\n"
       \o "Course material:\n"

buildPrompt(difficulty, format, qc, mat) ==
    PromptPreamble(difficulty, format, qc) \o mat

\* Faulty variant: the allow-list test is dropped
sanitizeModel_NoAllowList(rawModel) ==
    IF rawModel = "" THEN [ok |-> TRUE, model |-> ALLOWED_MODELS[1]]
    ELSE [ok |-> TRUE,
          model |-> IF StartsWith(rawModel, "models/") THEN rawModel
                    ELSE "models/" \o rawModel]

\* [ok |-> TRUE, model] on return, [ok |-> FALSE] when it throws
sanitizeModel(rawModel) ==
    IF rawModel = "" THEN [ok |-> TRUE, model |-> ALLOWED_MODELS[1]]
    ELSE LET candidate == IF StartsWith(rawModel, "models/") THEN rawModel
                          ELSE "models/" \o rawModel
         IN IF ~Includes(ALLOWED_MODELS, candidate)
            THEN [ok |-> FALSE, model |-> ""]
            ELSE [ok |-> TRUE, model |-> candidate]

\* Faulty variant: the corpus is cut without the marker
truncate_NoMarker(text) ==
    IF Len(text) > TRUNCATE_LIMIT THEN Slice0(text, TRUNCATE_LIMIT) ELSE text

\* const material = combined.length > TRUNCATE_LIMIT ? ... : combined
truncate(text) ==
    IF Len(text) > TRUNCATE_LIMIT
    THEN Slice0(text, TRUNCATE_LIMIT) \o TruncationMarker
    ELSE text

-----------------------------------------------------------------------------
(* Model Gateway: callGemini *)

\* What the awaited fetch settles with.  settled is "rejected" (the promise
\* rejects: no HTTP response), or "http" with response.ok, response.status,
\* the body text, data.promptFeedback.blockReason ("" when absent) and
\* data.candidates[0].content.parts ([] when absent).  A part is
\* [isString, text]: isString is typeof part.text === 'string'.
MsgFetchFailed == "request to https://generativelanguage.googleapis.com/ failed"

Pending ==
    [settled |-> "pending", ok |-> FALSE, status |-> 0, body |-> "",
     blockReason |-> "", parts |-> <<>>]

\* Faulty variant: the credential check is missing
callGeminiBegin_NoKeyCheck(key) == [fetch |-> TRUE, message |-> ""]

\* callGemini up to the fetch call: the credential check decides whether the
\* network is touched at all
callGeminiBegin(key) ==
    IF ~key THEN [fetch |-> FALSE, message |-> MsgNotConfigured]
    ELSE [fetch |-> TRUE, message |-> ""]

\* parts.find((part) => typeof part.text === 'string'): index, 0 when none
FindFirstTextPart(parts) ==
    LET hits == {i \in 1..Len(parts) : parts[i].isString}
    IN IF hits = {} THEN 0 ELSE CHOOSE i \in hits : \A j \in hits : i <= j

Thrown(msg) == [ok |-> FALSE, value |-> "", message |-> msg]

Returned(text) == [ok |-> TRUE, value |-> text, message |-> ""]

\* Faulty variant: the returned text is only trimmed at its end
callGeminiSettle_TrimEndOnly(resp) ==
    IF resp.settled = "rejected" THEN Thrown(MsgFetchFailed)
    ELSE IF ~resp.ok
    THEN Thrown(MsgGatewayPrefix \o ToString(resp.status) \o "): " \o resp.body)
    ELSE IF resp.blockReason # ""
    THEN Thrown(MsgBlockedPrefix \o resp.blockReason \o ".")
    ELSE LET i == FindFirstTextPart(resp.parts)
         IN IF i = 0 \/ resp.parts[i].text = ""
            THEN Thrown(MsgEmptyResponse)
            ELSE Returned(TrimEnd(resp.parts[i].text))

\* Faulty variant: the parts are read before promptFeedback.blockReason is tested
callGeminiSettle_PartsFirst(resp) ==
    IF resp.settled = "rejected" THEN Thrown(MsgFetchFailed)
    ELSE IF ~resp.ok
    THEN Thrown(MsgGatewayPrefix \o ToString(resp.status) \o "): " \o resp.body)
    ELSE LET i == FindFirstTextPart(resp.parts)
         IN IF i = 0 \/ resp.parts[i].text = ""
            THEN IF resp.blockReason # ""
                 THEN Thrown(MsgBlockedPrefix \o resp.blockReason \o ".")
                 ELSE Thrown(MsgEmptyResponse)
            ELSE Returned(Trim(resp.parts[i].text))

\* callGemini from the settlement of the fetch to its return or throw
callGeminiSettle(resp) ==
    IF resp.settled = "rejected" THEN Thrown(MsgFetchFailed)
    ELSE IF ~resp.ok
    THEN Thrown(MsgGatewayPrefix \o ToString(resp.status) \o "): " \o resp.body)
    ELSE IF resp.blockReason # ""
    THEN Thrown(MsgBlockedPrefix \o resp.blockReason \o ".")
    ELSE LET i == FindFirstTextPart(resp.parts)
         IN IF i = 0 \/ resp.parts[i].text = ""
            THEN Thrown(MsgEmptyResponse)
            ELSE Returned(Trim(resp.parts[i].text))

-----------------------------------------------------------------------------
(* Response Validator: JSON.parse and the read of json.questions *)

Question(prompt, type, difficulty, answer) ==
    [prompt |-> prompt, type |-> type, difficulty |-> difficulty,
     answer |-> answer, options |-> <<>>]

\* A parsed value: its JSON kind, whether it owns a `questions` field,
\* whether that field's value is truthy, and the value when it is an array.
Value(kind, has, truthy, qs) ==
    [ok |-> TRUE, kind |-> kind, hasQuestions |-> has, truthy |-> truthy,
     questions |-> qs]

SyntaxError ==
    [ok |-> FALSE, kind |-> "", hasQuestions |-> FALSE, truthy |-> FALSE,
     questions |-> <<>>]

JsonWhiteSpace == {" ", "\t", "\n", "\r"}

RECURSIVE JsonStrip(_)
JsonStrip(s) ==
    IF s # "" /\ CharAt(s, 1) \in JsonWhiteSpace THEN JsonStrip(Tail(s))
    ELSE IF s # "" /\ CharAt(s, Len(s)) \in JsonWhiteSpace
    THEN JsonStrip(SubSeq(s, 1, Len(s) - 1))
    ELSE s

TextOneQuestion ==
    "{\"questions\":[{\"prompt\":\"What is photosynthesis?\",\"type\":\"short\",\"difficulty\":\"easy\",\"answer\":\"...\",\"options\":[]}]}"

\* JSON.parse on the texts the modelled endpoint produces: whitespace around
\* the value is skipped, the value is read, anything else is a SyntaxError
JSONParse(text) ==
    LET t == JsonStrip(text)
    IN CASE t = "null" -> Value("null", FALSE, FALSE, <<>>)
         [] t = "true" -> Value("boolean", FALSE, FALSE, <<>>)
         [] t = "42" -> Value("number", FALSE, FALSE, <<>>)
         [] t = "\"questions\"" -> Value("string", FALSE, FALSE, <<>>)
         [] t = "[]" -> Value("array", FALSE, FALSE, <<>>)
         [] t = "{}" -> Value("object", FALSE, FALSE, <<>>)
         [] t = "{\"items\":[]}" -> Value("object", FALSE, FALSE, <<>>)
         [] t = "{\"questions\":null}" -> Value("object", TRUE, FALSE, <<>>)
         [] t = "{\"questions\":[]}" -> Value("object", TRUE, TRUE, <<>>)
         [] t = TextOneQuestion ->
              Value("object", TRUE, TRUE,
                    << Question("What is photosynthesis?", "short", "easy", "...") >>)
         [] OTHER -> SyntaxError

\* json.questions || []: reading a property of null throws a TypeError,
\* of any other value yields the field or undefined
ReadQuestions(json) ==
    IF json.kind = "null" THEN [ok |-> FALSE, questions |-> <<>>]
    ELSE IF json.hasQuestions /\ json.truthy
    THEN [ok |-> TRUE, questions |-> json.questions]
    ELSE [ok |-> TRUE, questions |-> <<>>]

-----------------------------------------------------------------------------
(* The inputs a request is drawn from *)

MaxParts == 2

\* multer's limits.files
FilesLimit == 5

SeqsUpTo(S, n) == UNION {[1..k -> S] : k \in 0..n}

File(buffer, mimetype, originalname) ==
    [buffer |-> buffer, mimetype |-> mimetype, originalname |-> originalname]

EmptyTxt == File(<<>>, "text/plain", "empty.txt")
NotesTxt == File(<<98>>, "text/plain", "notes.txt")
SlidesPdf == File(<<66, 32, 66>>, "application/pdf", "slides.pdf")
PicPng == File(<<66>>, "image/png", "pic.png")

FileInputs == {EmptyTxt, NotesTxt, SlidesPdf, PicPng}

MimeTypes ==
    {"application/pdf", "text/plain", "text/csv", "application/json",
     "image/png", "application/octet-stream", "Application/PDF"}

FileNames ==
    {"a.pdf", "A.PDF", "notes.txt", "README.md", "data.csv", "data.json",
     "NOTES.TXT", "pic.png", "noext", ".txt", "archive.tar.md", "paper.pdf.exe",
     "v1.pdf/readme", ""}

Buffers == {<<>>, <<98>>, <<123, 125, 10>>}

FileUniverse ==
    {File(b, m, n) : b \in Buffers, m \in MimeTypes, n \in FileNames}

MsgPdfFailure == "Invalid PDF structure"

PdfOutcomes ==
    {[ok |-> TRUE, text |-> "", message |-> ""],
     [ok |-> TRUE, text |-> "Chlorophyll absorbs light.", message |-> ""],
     [ok |-> FALSE, text |-> "", message |-> MsgPdfFailure]}

TextSample == "Photosynthesis converts light into chemical energy."

TextInputs ==
    {"", TextSample, Rep("a", TRUNCATE_LIMIT - 3), Rep("a", TRUNCATE_LIMIT),
     Rep("a", TRUNCATE_LIMIT + 1)}

ModelInputs ==
    {"", "gemini-2.5-flash", "models/gemini-2.5-pro", "unlisted-model-x",
     "model/gemini-2.0-flash", "models/unlisted-model-x"}

QuestionCountInputs == {"", "2", "abc"}

Part(text) == [isString |-> TRUE, text |-> text]

\* a part without a text field (inline data, a function call)
NoTextPart == [isString |-> FALSE, text |-> ""]

GatewayTexts ==
    {TextOneQuestion, "{\"questions\":[]}", "{\"questions\":null}",
     "{\"items\":[]}", "{}", "[]", "\"questions\"", "42", "true", "null",
     "not json", " not json\n", "\n{\"questions\":[]}\n", "  null ",
     "{\"questions\":[", "   ", "\f{}", "Here is the JSON:\n{}"}

PartInputs == {NoTextPart, Part(""), Part("{\"questions\":[]}"), Part(" not json\n")}

PartLists ==
    SeqsUpTo(PartInputs, MaxParts) \cup {<<Part(t)>> : t \in GatewayTexts}

Rejected ==
    [settled |-> "rejected", ok |-> FALSE, status |-> 0, body |-> "",
     blockReason |-> "", parts |-> <<>>]

\* An HTTP response: the body text is what the endpoint sent
Http(ok, block, parts) ==
    [settled |-> "http", ok |-> ok, status |-> IF ok THEN 200 ELSE 503,
     body |-> IF block # ""
              THEN "{\"promptFeedback\":{\"blockReason\":\"" \o block \o "\"}}"
              ELSE IF ok THEN "{\"candidates\":[]}"
              ELSE "{\"error\":{\"status\":\"UNAVAILABLE\"}}",
     blockReason |-> block, parts |-> parts]

BlockReasons == {"", "SAFETY"}

AllUpstreams ==
    {Rejected} \cup
    {Http(ok, block, parts) : ok \in BOOLEAN, block \in BlockReasons,
                              parts \in PartLists}

FewUpstreams ==
    {Rejected, Http(FALSE, "", <<>>), Http(TRUE, "SAFETY", <<>>),
     Http(TRUE, "", <<Part(TextOneQuestion)>>), Http(TRUE, "", <<Part("not json")>>)}

Request(model, qc, text, files) ==
    [difficulty |-> "easy", format |-> "short", model |-> model,
     questionCount |-> qc, textInput |-> text, files |-> files]

-----------------------------------------------------------------------------
(* The HTTP layer's responses *)

ResNone ==
    [status |-> 0, error |-> "", hasRaw |-> FALSE, raw |-> "", model |-> "",
     difficulty |-> "", format |-> "", questionCount |-> 0,
     materialLength |-> 0, questions |-> <<>>]

ErrorRes(status, msg) == [ResNone EXCEPT !.status = status, !.error = msg]

\* the handler's catch: error.message || 'Unexpected server error.'
Error500(msg) == ErrorRes(500, IF msg = "" THEN MsgUnexpected ELSE msg)

MalformedRes(raw) ==
    [ResNone EXCEPT !.status = 502, !.error = MsgMalformed, !.hasRaw = TRUE,
                    !.raw = raw]

\* questionCount || null is 0 here when null
ResultRes(model, difficulty, format, qc, len, questions) ==
    [ResNone EXCEPT !.status = 200, !.model = model, !.difficulty = difficulty,
                    !.format = format, !.questionCount = qc,
                    !.materialLength = len, !.questions = questions]

NotReturned == [returned |-> FALSE, text |-> ""]

-----------------------------------------------------------------------------
(* The handler of POST /api/generate *)

\* From the test of collectedTexts.length to the call of fetch in callGemini
\* (no await in between).
Conclude(texts, model, qc) ==
    IF Len(texts) = 0
    THEN /\ res' = ErrorRes(400, MsgNoMaterial)
         /\ pc' = "done"
         /\ UNCHANGED <<aggregated, combined, material, geminiCalls, outbound>>
    ELSE LET c == Join(texts, "\n\n")
             m == truncate(c)
             prompt == buildPrompt(req.difficulty, req.format, qc, m)
             begin == callGeminiBegin(apiKey)
         IN /\ aggregated' = TRUE
            /\ combined' = c
            /\ material' = m
            /\ geminiCalls' = geminiCalls + 1
            /\ IF begin.fetch
               THEN /\ outbound' = Append(outbound, [model |-> model, prompt |-> prompt])
                    /\ pc' = "fetch"
                    /\ UNCHANGED res
               ELSE /\ res' = Error500(begin.message)
                    /\ pc' = "done"
                    /\ UNCHANGED outbound

\* The request arrives: question count, model selection, pasted text; then
\* the first extraction is awaited, or, without files, the corpus is built.
HandleRequest ==
    /\ pc = "start"
    /\ LET raw == req.questionCount
           qc  == IF raw # "" THEN ToNumber(raw) ELSE 0
           sm  == sanitizeModel(req.model)
           texts == IF req.textInput # "" THEN <<req.textInput>> ELSE <<>>
       IN IF raw # "" /\ qc = NaN
          THEN /\ res' = ErrorRes(400, MsgQuestionCount)
               /\ pc' = "done"
               /\ UNCHANGED <<questionCount, selectedModel, collectedTexts, idx,
                              aggregated, combined, material, geminiCalls, outbound>>
          ELSE IF ~sm.ok
          THEN /\ res' = Error500(MsgModelNotAllowed)
               /\ pc' = "done"
               /\ questionCount' = qc
               /\ UNCHANGED <<selectedModel, collectedTexts, idx, aggregated,
                              combined, material, geminiCalls, outbound>>
          ELSE /\ questionCount' = qc
               /\ selectedModel' = sm.model
               /\ collectedTexts' = texts
               /\ IF Len(req.files) > 0
                  THEN /\ pc' = "extract"
                       /\ idx' = 1
                       /\ UNCHANGED <<aggregated, combined, material, geminiCalls,
                                      outbound, res>>
                  ELSE /\ UNCHANGED idx
                       /\ Conclude(texts, sm.model, qc)
    /\ UNCHANGED <<apiKey, req, upstream, routes, extracted, response, llmResponse>>

\* The awaited extraction of file idx settles; the loop goes on to the next
\* file, or the corpus is built.
ExtractNext ==
    /\ pc = "extract"
    /\ \E pdf \in PdfOutcomes :
         LET r == extractTextFromFile(req.files[idx], pdf)
             texts == Append(collectedTexts, r.text)
         IN /\ routes' = Append(routes, r.route)
            /\ IF ~r.ok
               THEN /\ res' = Error500(r.message)
                    /\ pc' = "done"
                    /\ UNCHANGED <<extracted, collectedTexts, idx, aggregated,
                                   combined, material, geminiCalls, outbound>>
               ELSE /\ extracted' = Append(extracted, r.text)
                    /\ collectedTexts' = texts
                    /\ IF idx < Len(req.files)
                       THEN /\ idx' = idx + 1
                            /\ UNCHANGED <<pc, aggregated, combined, material,
                                           geminiCalls, outbound, res>>
                       ELSE /\ UNCHANGED idx
                            /\ Conclude(texts, selectedModel, questionCount)
    /\ UNCHANGED <<apiKey, req, upstream, questionCount, selectedModel, response,
                   llmResponse>>

\* The awaited fetch settles: the rest of callGemini, JSON.parse, the response.
FetchSettles ==
    /\ pc = "fetch"
    /\ response' = upstream
    /\ pc' = "done"
    /\ LET g == callGeminiSettle(upstream)
       IN IF ~g.ok
          THEN /\ res' = Error500(g.message)
               /\ UNCHANGED llmResponse
          ELSE /\ llmResponse' = [returned |-> TRUE, text |-> g.value]
               /\ LET json == JSONParse(g.value)
                      q == ReadQuestions(json)
                  IN res' = IF ~json.ok THEN MalformedRes(g.value)
                            ELSE IF ~q.ok THEN Error500(MsgNullProperty)
                            ELSE ResultRes(selectedModel, req.difficulty, req.format,
                                           questionCount, Len(combined), q.questions)
    /\ UNCHANGED <<apiKey, req, upstream, questionCount, selectedModel,
                   collectedTexts, idx, routes, extracted, aggregated, combined,
                   material, geminiCalls, outbound>>

Start(key, request, up) ==
    /\ apiKey = key
    /\ req = request
    /\ upstream = up
    /\ pc = "start"
    /\ questionCount = 0
    /\ selectedModel = ""
    /\ collectedTexts = <<>>
    /\ idx = 0
    /\ routes = <<>>
    /\ extracted = <<>>
    /\ aggregated = FALSE
    /\ combined = ""
    /\ material = ""
    /\ geminiCalls = 0
    /\ outbound = <<>>
    /\ response = Pending
    /\ llmResponse = NotReturned
    /\ res = ResNone

\* Any request against a few behaviours of the endpoint
Init ==
    \E key \in BOOLEAN, m \in ModelInputs, qc \in QuestionCountInputs,
       text \in TextInputs, files \in SeqsUpTo(FileInputs, Min(MaxFiles, FilesLimit)),
       up \in FewUpstreams :
        Start(key, Request(m, qc, text, files), up)

\* A few requests against any behaviour of the endpoint
InitGateway ==
    \E key \in BOOLEAN, m \in {"", "gemini-2.5-flash"},
       text \in {"", TextSample}, files \in {<<>>, <<NotesTxt>>},
       up \in AllUpstreams :
        Start(key, Request(m, "2", text, files), up)

\* Any single upload, with or without pasted text
InitExtract ==
    \E f \in FileUniverse, text \in {"", TextSample},
       up \in {Http(TRUE, "", <<Part(TextOneQuestion)>>)} :
        Start(TRUE, Request("", "", text, <<f>>), up)

Next == HandleRequest \/ ExtractNext \/ FetchSettles

Spec == Init /\ [][Next]_vars

SpecGateway == InitGateway /\ [][Next]_vars

SpecExtract == InitExtract /\ [][Next]_vars

-----------------------------------------------------------------------------
(* The failure taxonomy, read off the response the handler sent *)

Outcome ==
    CASE res.status = 0 -> "Pending"
      [] res.status = 200 -> "GenerationResult"
      [] res.status = 502 -> "MalformedModelOutput"
      [] res.status = 400 /\ res.error = MsgQuestionCount -> "InvalidQuestionCount"
      [] res.status = 400 /\ res.error = MsgNoMaterial -> "NoMaterialProvided"
      [] res.status = 500 /\ res.error = MsgModelNotAllowed -> "ModelNotAllowed"
      [] res.status = 500 /\ res.error = MsgNotConfigured -> "GatewayNotConfigured"
      [] res.status = 500 /\ res.error = MsgEmptyResponse -> "EmptyGatewayResponse"
      [] res.status = 500 /\ StartsWith(res.error, MsgGatewayPrefix) -> "GatewayError"
      [] res.status = 500 /\ StartsWith(res.error, MsgBlockedPrefix) -> "ContentBlocked"
      [] res.status = 500 /\ StartsWith(res.error, MsgUnsupportedPrefix) -> "UnsupportedFormat"
      [] res.status = 500 /\ res.error = MsgPdfFailure -> "ExtractionFailure"
      [] res.status = 500 /\ res.error = MsgFetchFailed -> "NetworkFailure"
      [] OTHER -> "UnexpectedError"

-----------------------------------------------------------------------------
(* Properties *)

AllowList == {ALLOWED_MODELS[i] : i \in 1..Len(ALLOWED_MODELS)}

Normalized(m) == IF StartsWith(m, "models/") THEN m ELSE "models/" \o m

IsNonEmpty(t) == t # ""

\* the pieces of the corpus in order: pasted text, then the extracted texts
Pieces == <<req.textInput>> \o extracted

\* the fetch settled with a successful, unblocked HTTP response
Unblocked ==
    response.settled = "http" /\ response.ok /\ response.blockReason = ""

TextPartIndexes == {i \in 1..Len(response.parts) : response.parts[i].isString}

\* the text of the first part of the response that has a text
FirstText ==
    response.parts[CHOOSE i \in TextPartIndexes : \A j \in TextPartIndexes : i <= j].text

GatewayGaveText == Unblocked /\ TextPartIndexes # {} /\ FirstText # ""

\* C1: the gateway is only ever called with a non-empty corpus; when the
\* combined corpus is empty the request fails with NoMaterialProvided and no
\* network call is made.
C1_NoGatewayCallOnEmptyCorpus ==
    /\ outbound # <<>> => material # ""
    /\ (aggregated /\ combined = "") =>
          (Outcome = "NoMaterialProvided" /\ outbound = <<>>)

\* C2: every outbound call names an allow-listed model; sanitizeModel gives
\* the first allow-listed model when none is supplied, the normalized name
\* when it is allow-listed, and otherwise the request fails with
\* ModelNotAllowed before any network call.
C2_OnlyAllowListedModels ==
    /\ \A i \in 1..Len(outbound) : outbound[i].model \in AllowList
    /\ (pc # "start" /\ Outcome # "InvalidQuestionCount") =>
          IF req.model = ""
          THEN selectedModel = ALLOWED_MODELS[1] /\ Outcome # "ModelNotAllowed"
          ELSE IF Normalized(req.model) \in AllowList
          THEN selectedModel = Normalized(req.model) /\ Outcome # "ModelNotAllowed"
          ELSE Outcome = "ModelNotAllowed" /\ outbound = <<>> /\ geminiCalls = 0

C2_Witness ==
    /\ req.model = "gemini-2.5-flash"
    /\ outbound # <<>>
    /\ outbound[1].model = "models/gemini-2.5-flash"

\* C3, as claimed: when the gateway text is not parseable the request ends
\* in MalformedModelOutput whose raw text is exactly the first text part's
\* text, nothing trimmed.
C3_RawIsUnmodifiedText ==
    (pc = "done" /\ GatewayGaveText /\ ~JSONParse(FirstText).ok) =>
        (Outcome = "MalformedModelOutput" /\ res.hasRaw /\ res.raw = FirstText)

\* C3, amended: when the trimmed text of the first text part is not
\* parseable the request ends in MalformedModelOutput whose raw text is that
\* text with its leading and trailing whitespace removed.
C3_RawIsTrimmedText ==
    (pc = "done" /\ GatewayGaveText /\ ~JSONParse(Trim(FirstText)).ok) =>
        (Outcome = "MalformedModelOutput" /\ res.hasRaw
         /\ res.raw = Trim(FirstText))

C3_Witness ==
    /\ pc = "done"
    /\ GatewayGaveText
    /\ FirstText = " not json\n"
    /\ Outcome = "MalformedModelOutput"
    /\ res.raw = "not json"

\* C4: a gateway text that parses to a value without a `questions` field,
\* of any JSON kind, gives a successful result with no questions.
C4_NoQuestionsFieldSucceeds ==
    (pc = "done" /\ llmResponse.returned /\ JSONParse(llmResponse.text).ok
     /\ ~JSONParse(llmResponse.text).hasQuestions) =>
        (Outcome = "GenerationResult" /\ res.questions = <<>>)

\* C5, as claimed: a gateway response carrying a blockReason gives
\* ContentBlocked whatever its transport status.
C5_BlockReasonIsContentBlocked ==
    (pc = "done" /\ response.settled = "http" /\ response.blockReason # "") =>
        Outcome = "ContentBlocked"

\* C5, amended: a gateway response with a successful transport status that
\* carries a blockReason gives ContentBlocked, whatever else it holds; a
\* GatewayError comes only from a non-success transport status.
C5_BlockReasonOnOkIsContentBlocked ==
    /\ (pc = "done" /\ response.settled = "http" /\ response.ok
        /\ response.blockReason # "") =>
           (Outcome = "ContentBlocked"
            /\ res.error = MsgBlockedPrefix \o response.blockReason \o ".")
    /\ Outcome = "GatewayError" => (response.settled = "http" /\ ~response.ok)

C5_Witness ==
    /\ pc = "done"
    /\ response.settled = "http" /\ response.ok
    /\ response.blockReason = "SAFETY"
    /\ response.parts = <<Part("{\"questions\":[]}")>>
    /\ Outcome = "ContentBlocked"

\* C6: a gateway invocation makes exactly one outbound call when the
\* credential is configured and none when it is not (GatewayNotConfigured);
\* nothing is retried: at most one outbound call per request, and every
\* failure ends the request.
C6_AtMostOneNetworkCall ==
    /\ geminiCalls <= 1
    /\ Len(outbound) = IF geminiCalls = 1 /\ apiKey THEN 1 ELSE 0
    /\ (geminiCalls = 1 /\ ~apiKey) => Outcome = "GatewayNotConfigured"
    /\ res.status # 0 => (pc = "done" /\ ~ENABLED Next)

C6_Witness ==
    /\ pc = "done"
    /\ response.settled = "rejected"
    /\ Outcome = "NetworkFailure"
    /\ Len(outbound) = 1

\* C7: the corpus is the non-empty pieces, pasted text first and file texts
\* in upload order, joined by a blank line; an empty piece adds neither
\* content nor a separator.
C7_CorpusJoinsNonEmptyPieces ==
    aggregated => combined = Join(SelectSeq(Pieces, IsNonEmpty), "\n\n")

\* C8: the material in the prompt is the corpus itself up to 16,000
\* characters, and otherwise its first 16,000 characters followed by the
\* truncation marker.
C8_TruncatedWithMarker ==
    aggregated =>
        /\ Len(combined) <= TRUNCATE_LIMIT => material = combined
        /\ Len(combined) > TRUNCATE_LIMIT =>
              /\ material = SubSeq(combined, 1, TRUNCATE_LIMIT) \o TruncationMarker
              /\ Len(material) = TRUNCATE_LIMIT + Len(TruncationMarker)
        /\ \A i \in 1..Len(outbound) :
              EndsWith(outbound[i].prompt, "Course material:\n" \o material)

C8_Witness ==
    /\ outbound # <<>>
    /\ combined = Rep("a", TRUNCATE_LIMIT - 3) \o "\n\n" \o "Chlorophyll absorbs light."
    /\ EndsWith(outbound[1].prompt, "a\n\nC" \o TruncationMarker)

\* C9: whenever some part of a successful, unblocked response carries a
\* non-empty text, the gateway returns text and does not fail with
\* EmptyGatewayResponse.
C9_TextPartIsReturned ==
    (pc = "done" /\ Unblocked
     /\ \E i \in 1..Len(response.parts) :
           response.parts[i].isString /\ response.parts[i].text # "") =>
        (llmResponse.returned /\ Outcome # "EmptyGatewayResponse")

\* C10: extractTextFromFile takes, for every file, the first branch that
\* applies: empty bytes give the empty string; else type application/pdf
\* or extension .pdf goes to PDF decoding; else a text/ type or an extension
\* among .txt .md .csv .json goes to UTF-8 decoding; else UnsupportedFormat.
C10_ExtractionRouting ==
    \A i \in 1..Len(routes) :
        LET f == req.files[i]
            ext == ToLowerCase(extname(f.originalname))
        IN IF f.buffer = <<>>
           THEN routes[i] = "empty" /\ extracted[i] = ""
           ELSE IF f.mimetype = "application/pdf" \/ ext = ".pdf"
           THEN routes[i] = "pdf" /\ Outcome # "UnsupportedFormat"
           ELSE IF StartsWith(f.mimetype, "text/")
                   \/ ext \in {".txt", ".md", ".csv", ".json"}
           THEN routes[i] = "utf8" /\ extracted[i] = Utf8ToString(f.buffer)
           ELSE /\ routes[i] = "unsupported"
                /\ Outcome = "UnsupportedFormat"
                /\ pc = "done" /\ outbound = <<>>

C10_Witness ==
    /\ routes = <<"pdf">>
    /\ req.files[1].mimetype = "text/plain"
    /\ req.files[1].originalname = "A.PDF"
    /\ req.files[1].buffer # <<>>

====
